---- MODULE Spec2Model ----
(***************************************************************************)
(* OIDC RP-Initiated Logout of oauth2_provider/views/oidc.py:              *)
(* validate_logout_request and RPInitiatedLogoutView (get, form_valid,     *)
(* do_logout, error_response), over a client store, an ID-token store, the *)
(* OIDC_RP_INITIATED_LOGOUT_ALWAYS_PROMPT setting and the Django session.   *)
(*                                                                         *)
(* Python strings are sequences of one-character strings; an optional      *)
(* value is None (the empty tuple) or Some(v) (a one-element tuple).       *)
(***************************************************************************)
EXTENDS Integers, Sequences, FiniteSets, TLC

\* ------------------------------------------------------------- bounds
NumUsers == 2

\* ------------------------------------------------------------- values
None == <<>>
Some(v) == <<v>>

\* Python truthiness of an optional string: None and "" are falsy.
Truthy(o) == o # None /\ Len(o[1]) > 0

Users == 1..NumUsers
\* django.contrib.auth.models.AnonymousUser: request.user of an ended session
AnonymousUser == 0

\* strings
S_http == <<"h", "t", "t", "p">>
S_https == <<"h", "t", "t", "p", "s">>
S_app == <<"a", "p", "p">>
U_https == <<"h", "t", "t", "p", "s", ":", "/", "/", "a", "/", "d">>
U_http == <<"h", "t", "t", "p", ":", "/", "/", "a", "/", "d">>
U_HTTP == <<"H", "T", "T", "P", ":", "/", "/", "a", "/", "d">>
U_app == <<"a", "p", "p", ":", "/", "d">>
U_query == <<"h", "t", "t", "p", "s", ":", "/", "/", "a", "/", "d", "?", "x", "=", "1">>
U_noscheme == <<"a", "/", "d">>
U_colon == <<":", "/", "d">>
ABC == <<"a", "b", "c">>
PUB == <<"p", "u", "b">>
ZZZ == <<"z", "z", "z">>
T1 == <<"t", "1">>
T2 == <<"t", "2">>
TX == <<"t", "x">>
BAD == <<"b", "a", "d">>
XYZ == <<"x", " ", "z">>
EmptyStr == <<>>

\* request.build_absolute_uri("/")
ROOT == <<"h", "t", "t", "p", "s", ":", "/", "/", "o", "p", "/">>

\* oauth2_settings.ALLOWED_REDIRECT_URI_SCHEMES
ALLOWED_REDIRECT_URI_SCHEMES == {S_http, S_https}

\* ------------------------------------------------------------- urlparse
Upper == {"H", "T", "P"}
Letters == {"a", "b", "c", "d", "h", "o", "p", "s", "t", "x", "z"} \cup Upper
scheme_chars == Letters \cup {"+", "-", ".", "0", "1", "2"}

lower_char(c) ==
    CASE c = "H" -> "h"
      [] c = "T" -> "t"
      [] c = "P" -> "p"
      [] OTHER -> c

lower(s) == [i \in 1..Len(s) |-> lower_char(s[i])]

\* str.find, 1-based; 0 when ch does not occur
find(s, ch) ==
    IF \E i \in 1..Len(s) : s[i] = ch
    THEN CHOOSE i \in 1..Len(s) : s[i] = ch /\ \A j \in 1..(i - 1) : s[j] # ch
    ELSE 0

\* urlparse(url)[0]: the text before the first ":" when it starts with a
\* letter and holds scheme characters only, lower-cased; else "".
urlparse_scheme(url) ==
    LET i == find(url, ":")
    IN IF i > 1 /\ url[1] \in Letters /\ \A j \in 1..(i - 1) : url[j] \in scheme_chars
       THEN lower(SubSeq(url, 1, i - 1))
       ELSE EmptyStr

\* the url after its scheme and ":" (urlsplit's remainder)
urlparse_rest(url) ==
    IF urlparse_scheme(url) = EmptyStr
    THEN url
    ELSE SubSeq(url, find(url, ":"), Len(url))

\* urllib quote_plus, on the characters of the model's alphabet
quote_plus(s) == [i \in 1..Len(s) |-> IF s[i] = " " THEN "+" ELSE s[i]]

\* oauthlib.common.add_params_to_uri(uri, [("state", state)]): the query is
\* parsed, the pair appended, and the url rebuilt (scheme lower-cased).
add_params_to_uri(uri, state) ==
    LET rest == urlparse_rest(uri)
        sep == IF find(rest, "?") = 0 THEN <<"?">> ELSE <<"&">>
    IN urlparse_scheme(uri) \o rest \o sep
         \o <<"s", "t", "a", "t", "e", "=">> \o quote_plus(state)

\* ------------------------------------------------------------- state
VARIABLES
    user,           \* request.user: the session's authenticated user
    applications,   \* the client store: client_id -> Application
    id_tokens,      \* the ID-token store: hint -> IDToken
    OIDC_RP_INITIATED_LOGOUT_ALWAYS_PROMPT,
    request,        \* the request being answered, NoRequest between requests
    decision,       \* what validate_logout_request returned or raised for it
    response,       \* the response to it
    oauth2_settings,\* the OIDC_* settings the discovery and JWKS views read
    document,       \* the JSON response of the discovery or JWKS view
    history         \* the earlier calls or exchange the current one repeats

vars == <<user, applications, id_tokens, OIDC_RP_INITIATED_LOGOUT_ALWAYS_PROMPT,
          request, decision, response, oauth2_settings, document, history>>

\* what the logout endpoint neither reads nor writes
metadata_vars == <<oauth2_settings, document, history>>

OIDCErrors == {"InvalidIDTokenError", "ClientIdMissmatch", "InvalidOIDCClientError",
               "InvalidOIDCRedirectURIError", "LogoutDenied"}

\* ------------------------------------------------------------- collaborators
\* OAuth2Validator._load_id_token: the stored, unexpired token of the hint, or None
load_id_token(id_token_hint) ==
    IF id_token_hint \in DOMAIN id_tokens /\ ~id_tokens[id_token_hint].expired
    THEN Some(id_tokens[id_token_hint])
    ELSE None

\* Application.get_allowed_schemes()
get_allowed_schemes(application) == application.allowed_schemes

\* Application.post_logout_redirect_uri_allowed(uri): exact match
post_logout_redirect_uri_allowed(application, uri) ==
    uri \in application.post_logout_redirect_uris

\* ------------------------------------------------------------- validate_logout_request
Raise(error) ==
    [ok |-> FALSE, error |-> error, prompt_logout |-> FALSE,
     post_logout_redirect_uri |-> None, application |-> None]

Return(prompt, uri, application) ==
    [ok |-> TRUE, error |-> "", prompt_logout |-> prompt,
     post_logout_redirect_uri |-> uri, application |-> application]

\* mutant: any validated token relaxes the prompt, whoever its user is
must_prompt_logout_any_token(current_user, id_token) ==
    ~(id_token # None)

\* mutant: the prompt is off by default and turned on by a token of another user
must_prompt_logout_default_false(current_user, id_token) ==
    id_token # None /\ id_token[1].user # current_user

\* must_prompt_logout: True unless the validated token's user is the current user
must_prompt_logout(current_user, id_token) ==
    ~(id_token # None /\ id_token[1].user = current_user)

\* mutant: OIDC_RP_INITIATED_LOGOUT_ALWAYS_PROMPT is not consulted
prompt_logout_ignores_policy(current_user, id_token) ==
    must_prompt_logout(current_user, id_token)

prompt_logout(current_user, id_token) ==
    must_prompt_logout(current_user, id_token) \/ OIDC_RP_INITIATED_LOGOUT_ALWAYS_PROMPT

\* "If both id_token_hint and client_id are given it must be verified that they match."
client_id_missmatch(id_token, client_id) ==
    id_token # None /\ Truthy(client_id) /\ id_token[1].application # client_id[1]

\* objects.get(client_id=client_id) raises Application.DoesNotExist when no row matches
objects_get_raises(client_id) ==
    Truthy(client_id) /\ client_id[1] \notin DOMAIN applications

\* "Determine the application that is requesting the logout."
requesting_application(id_token, client_id) ==
    IF Truthy(client_id) THEN Some(applications[client_id[1]])
    ELSE IF id_token # None THEN Some(applications[id_token[1].application])
    ELSE None

\* mutant: the uri is not looked up among the client's registered uris
redirect_uri_error_unregistered(post_logout_redirect_uri, application) ==
    IF ~Truthy(post_logout_redirect_uri) THEN ""
    ELSE IF application = None THEN "InvalidOIDCClientError"
    ELSE LET scheme == urlparse_scheme(post_logout_redirect_uri[1])
         IN IF scheme = EmptyStr THEN "InvalidOIDCRedirectURIError"
            ELSE IF scheme = S_http /\ application[1].client_type # "confidential"
                 THEN "InvalidOIDCRedirectURIError"
            ELSE IF scheme \notin get_allowed_schemes(application[1])
                 THEN "InvalidOIDCRedirectURIError"
            ELSE ""

\* mutant: http is not refused for clients that are not confidential
redirect_uri_error_no_http_check(post_logout_redirect_uri, application) ==
    IF ~Truthy(post_logout_redirect_uri) THEN ""
    ELSE IF application = None THEN "InvalidOIDCClientError"
    ELSE LET scheme == urlparse_scheme(post_logout_redirect_uri[1])
         IN IF scheme = EmptyStr THEN "InvalidOIDCRedirectURIError"
            ELSE IF scheme \notin get_allowed_schemes(application[1])
                 THEN "InvalidOIDCRedirectURIError"
            ELSE IF ~post_logout_redirect_uri_allowed(application[1],
                                                      post_logout_redirect_uri[1])
                 THEN "InvalidOIDCRedirectURIError"
            ELSE ""

\* mutant: a uri is accepted unchecked when no application was determined
redirect_uri_error_no_client_check(post_logout_redirect_uri, application) ==
    IF ~Truthy(post_logout_redirect_uri) THEN ""
    ELSE IF application = None THEN ""
    ELSE LET scheme == urlparse_scheme(post_logout_redirect_uri[1])
         IN IF scheme = EmptyStr THEN "InvalidOIDCRedirectURIError"
            ELSE IF scheme = S_http /\ application[1].client_type # "confidential"
                 THEN "InvalidOIDCRedirectURIError"
            ELSE IF scheme \notin get_allowed_schemes(application[1])
                 THEN "InvalidOIDCRedirectURIError"
            ELSE IF ~post_logout_redirect_uri_allowed(application[1],
                                                      post_logout_redirect_uri[1])
                 THEN "InvalidOIDCRedirectURIError"
            ELSE ""

\* "Validate `post_logout_redirect_uri`": the error raised, "" when none is
redirect_uri_error(post_logout_redirect_uri, application) ==
    IF ~Truthy(post_logout_redirect_uri) THEN ""
    ELSE IF application = None THEN "InvalidOIDCClientError"
    ELSE LET scheme == urlparse_scheme(post_logout_redirect_uri[1])
         IN IF scheme = EmptyStr THEN "InvalidOIDCRedirectURIError"
            ELSE IF scheme = S_http /\ application[1].client_type # "confidential"
                 THEN "InvalidOIDCRedirectURIError"
            ELSE IF scheme \notin get_allowed_schemes(application[1])
                 THEN "InvalidOIDCRedirectURIError"
            ELSE IF ~post_logout_redirect_uri_allowed(application[1],
                                                      post_logout_redirect_uri[1])
                 THEN "InvalidOIDCRedirectURIError"
            ELSE ""

\* mutant: the application is looked up before the token is matched against client_id
validate_logout_request_lookup_first(current_user, id_token_hint, client_id, post_logout_redirect_uri) ==
    LET id_token == IF Truthy(id_token_hint) THEN load_id_token(id_token_hint[1]) ELSE None
    IN IF Truthy(id_token_hint) /\ id_token = None THEN Raise("InvalidIDTokenError")
       ELSE IF objects_get_raises(client_id) THEN Raise("DoesNotExist")
       ELSE LET application == requesting_application(id_token, client_id)
                error == redirect_uri_error(post_logout_redirect_uri, application)
            IN IF error # "" THEN Raise(error)
               ELSE IF client_id_missmatch(id_token, client_id)
                    THEN Raise("ClientIdMissmatch")
               ELSE Return(prompt_logout(current_user, id_token),
                           post_logout_redirect_uri, application)

validate_logout_request(current_user, id_token_hint, client_id, post_logout_redirect_uri) ==
    LET id_token == IF Truthy(id_token_hint) THEN load_id_token(id_token_hint[1]) ELSE None
    IN IF Truthy(id_token_hint) /\ id_token = None THEN Raise("InvalidIDTokenError")
       ELSE IF client_id_missmatch(id_token, client_id) THEN Raise("ClientIdMissmatch")
       ELSE IF objects_get_raises(client_id) THEN Raise("DoesNotExist")
       ELSE LET application == requesting_application(id_token, client_id)
                error == redirect_uri_error(post_logout_redirect_uri, application)
            IN IF error # "" THEN Raise(error)
               ELSE Return(prompt_logout(current_user, id_token),
                           post_logout_redirect_uri, application)

\* ------------------------------------------------------------- RPInitiatedLogoutView
NoResponse ==
    [kind |-> "none", error |-> "", location |-> EmptyStr, allowed_schemes |-> {},
     form |-> None, application |-> None]

\* OAuth2ResponseRedirect(redirect_to, allowed_schemes)
OAuth2ResponseRedirect(redirect_to, allowed_schemes) ==
    [NoResponse EXCEPT !.kind = "redirect", !.location = redirect_to,
                       !.allowed_schemes = allowed_schemes]

\* render_to_response({"error": error}, status=error.status_code)
error_response(error) == [NoResponse EXCEPT !.kind = "error", !.error = error]

\* an exception that is no OIDCError leaves the view unhandled
unhandled(exception) == [NoResponse EXCEPT !.kind = "fault", !.error = exception]

\* mutant: the state is not carried into the form
get_initial_drops_state(oidc_data) ==
    [id_token_hint |-> oidc_data.id_token_hint,
     client_id |-> oidc_data.client_id,
     post_logout_redirect_uri |-> oidc_data.post_logout_redirect_uri,
     state |-> None,
     logout_hint |-> None,
     ui_locales |-> None]

\* the form's initial data, from self.oidc_data: oidc_data holds no logout_hint and
\* no ui_locales, so .get gives None for them
get_initial(oidc_data) ==
    [id_token_hint |-> oidc_data.id_token_hint,
     client_id |-> oidc_data.client_id,
     post_logout_redirect_uri |-> oidc_data.post_logout_redirect_uri,
     state |-> oidc_data.state,
     logout_hint |-> None,
     ui_locales |-> None]

\* mutant: the form is built before self.oidc_data is filled in
render_prompt_empty_form(oidc_data, application) ==
    [NoResponse EXCEPT !.kind = "prompt",
                       !.form = Some([id_token_hint |-> None, client_id |-> None,
                                      post_logout_redirect_uri |-> None, state |-> None,
                                      logout_hint |-> None, ui_locales |-> None]),
                       !.application = application]

\* render_to_response(get_context_data(form=form, application=application))
render_prompt(oidc_data, application) ==
    [NoResponse EXCEPT !.kind = "prompt", !.form = Some(get_initial(oidc_data)),
                       !.application = application]

\* django.contrib.auth.logout(request): request.user becomes AnonymousUser
logout(current_user) == AnonymousUser

\* mutant: the state is not appended to the redirect uri
do_logout_drops_state(current_user, application, post_logout_redirect_uri, state) ==
    [user |-> logout(current_user),
     response |->
        IF Truthy(post_logout_redirect_uri)
        THEN IF application = None
             THEN unhandled("AttributeError")
             ELSE OAuth2ResponseRedirect(post_logout_redirect_uri[1],
                                         get_allowed_schemes(application[1]))
        ELSE OAuth2ResponseRedirect(ROOT, ALLOWED_REDIRECT_URI_SCHEMES)]

\* mutant: ending a session that has no authenticated user raises
do_logout_needs_user(current_user, application, post_logout_redirect_uri, state) ==
    IF current_user = AnonymousUser
    THEN [user |-> current_user, response |-> unhandled("AttributeError")]
    ELSE [user |-> logout(current_user),
          response |->
             IF Truthy(post_logout_redirect_uri)
             THEN IF application = None
                  THEN unhandled("AttributeError")
                  ELSE IF Truthy(state)
                       THEN OAuth2ResponseRedirect(
                                add_params_to_uri(post_logout_redirect_uri[1], state[1]),
                                get_allowed_schemes(application[1]))
                       ELSE OAuth2ResponseRedirect(post_logout_redirect_uri[1],
                                                   get_allowed_schemes(application[1]))
             ELSE OAuth2ResponseRedirect(ROOT, ALLOWED_REDIRECT_URI_SCHEMES)]

\* do_logout: the session is ended, then the redirect is built
do_logout(current_user, application, post_logout_redirect_uri, state) ==
    [user |-> logout(current_user),
     response |->
        IF Truthy(post_logout_redirect_uri)
        THEN IF application = None
             THEN unhandled("AttributeError")
             ELSE IF Truthy(state)
                  THEN OAuth2ResponseRedirect(
                           add_params_to_uri(post_logout_redirect_uri[1], state[1]),
                           get_allowed_schemes(application[1]))
                  ELSE OAuth2ResponseRedirect(post_logout_redirect_uri[1],
                                              get_allowed_schemes(application[1]))
        ELSE OAuth2ResponseRedirect(ROOT, ALLOWED_REDIRECT_URI_SCHEMES)]

keep(current_user, resp) == [user |-> current_user, response |-> resp]

\* mutant: get never asks for confirmation
get_outcome_silent(current_user, d, oidc_data) ==
    IF ~d.ok
    THEN IF d.error \in OIDCErrors
         THEN keep(current_user, error_response(d.error))
         ELSE keep(current_user, unhandled(d.error))
    ELSE do_logout(current_user, d.application, d.post_logout_redirect_uri,
                   oidc_data.state)

\* the outcome of get for a validator result d
get_outcome(current_user, d, oidc_data) ==
    IF ~d.ok
    THEN IF d.error \in OIDCErrors
         THEN keep(current_user, error_response(d.error))
         ELSE keep(current_user, unhandled(d.error))
    ELSE IF ~d.prompt_logout
         THEN do_logout(current_user, d.application, d.post_logout_redirect_uri,
                        oidc_data.state)
         ELSE keep(current_user, render_prompt(oidc_data, d.application))

\* mutant: the session is ended before the allow choice is looked at
form_valid_outcome_logout_first(current_user, d, cleaned_data) ==
    IF ~d.ok
    THEN IF d.error \in OIDCErrors
         THEN keep(current_user, error_response(d.error))
         ELSE keep(current_user, unhandled(d.error))
    ELSE IF ~d.prompt_logout \/ cleaned_data.allow
         THEN do_logout(current_user, d.application, d.post_logout_redirect_uri,
                        cleaned_data.state)
         ELSE [user |-> logout(current_user), response |-> error_response("LogoutDenied")]

\* mutant: "and" for "or" in the termination condition
form_valid_outcome_and(current_user, d, cleaned_data) ==
    IF ~d.ok
    THEN IF d.error \in OIDCErrors
         THEN keep(current_user, error_response(d.error))
         ELSE keep(current_user, unhandled(d.error))
    ELSE IF ~d.prompt_logout /\ cleaned_data.allow
         THEN do_logout(current_user, d.application, d.post_logout_redirect_uri,
                        cleaned_data.state)
         ELSE keep(current_user, error_response("LogoutDenied"))

\* mutant: the allow choice is not looked at
form_valid_outcome_ignores_allow(current_user, d, cleaned_data) ==
    IF ~d.ok
    THEN IF d.error \in OIDCErrors
         THEN keep(current_user, error_response(d.error))
         ELSE keep(current_user, unhandled(d.error))
    ELSE do_logout(current_user, d.application, d.post_logout_redirect_uri,
                   cleaned_data.state)

\* the outcome of form_valid for a validator result d
form_valid_outcome(current_user, d, cleaned_data) ==
    IF ~d.ok
    THEN IF d.error \in OIDCErrors
         THEN keep(current_user, error_response(d.error))
         ELSE keep(current_user, unhandled(d.error))
    ELSE IF ~d.prompt_logout \/ cleaned_data.allow
         THEN do_logout(current_user, d.application, d.post_logout_redirect_uri,
                        cleaned_data.state)
         ELSE keep(current_user, error_response("LogoutDenied"))

\* ------------------------------------------------------------- inputs
GetHints == {None, Some(EmptyStr), Some(T1), Some(T2), Some(TX), Some(BAD)}
GetClientIds == {None, Some(EmptyStr), Some(ABC), Some(PUB), Some(ZZZ)}
GetURIs == {None, Some(EmptyStr), Some(U_https), Some(U_http), Some(U_HTTP),
            Some(U_app), Some(U_query), Some(U_noscheme), Some(U_colon)}
GetStates == {None, Some(EmptyStr), Some(XYZ)}

\* a CharField(required=False) cleans an absent field to ""
clean(v) == IF v = None THEN Some(EmptyStr) ELSE v

FormHints == {clean(v) : v \in GetHints}
FormClientIds == {clean(v) : v \in GetClientIds}
FormURIs == {clean(v) : v \in GetURIs}
FormStates == {clean(v) : v \in GetStates}

\* ------------------------------------------------------------- actions
NoRequest ==
    [method |-> "NONE", user |-> AnonymousUser, id_token_hint |-> None,
     client_id |-> None, post_logout_redirect_uri |-> None, state |-> None,
     allow |-> FALSE]

NoDecision == Raise("")

get(id_token_hint, client_id, post_logout_redirect_uri, state) ==
    LET d == validate_logout_request(user, id_token_hint, client_id,
                                     post_logout_redirect_uri)
        oidc_data == [id_token_hint |-> id_token_hint, client_id |-> client_id,
                      post_logout_redirect_uri |-> post_logout_redirect_uri,
                      state |-> state]
        out == get_outcome(user, d, oidc_data)
    IN /\ request = NoRequest
       /\ request' = [method |-> "GET", user |-> user,
                      id_token_hint |-> id_token_hint, client_id |-> client_id,
                      post_logout_redirect_uri |-> post_logout_redirect_uri,
                      state |-> state, allow |-> FALSE]
       /\ decision' = d
       /\ response' = out.response
       /\ user' = out.user
       /\ UNCHANGED <<applications, id_tokens, OIDC_RP_INITIATED_LOGOUT_ALWAYS_PROMPT>>

form_valid(id_token_hint, client_id, post_logout_redirect_uri, state, allow) ==
    LET d == validate_logout_request(user, id_token_hint, client_id,
                                     post_logout_redirect_uri)
        cleaned_data == [id_token_hint |-> id_token_hint, client_id |-> client_id,
                         post_logout_redirect_uri |-> post_logout_redirect_uri,
                         state |-> state, allow |-> allow]
        out == form_valid_outcome(user, d, cleaned_data)
    IN /\ request = NoRequest
       /\ request' = [method |-> "POST", user |-> user,
                      id_token_hint |-> id_token_hint, client_id |-> client_id,
                      post_logout_redirect_uri |-> post_logout_redirect_uri,
                      state |-> state, allow |-> allow]
       /\ decision' = d
       /\ response' = out.response
       /\ user' = out.user
       /\ UNCHANGED <<applications, id_tokens, OIDC_RP_INITIATED_LOGOUT_ALWAYS_PROMPT>>

\* another user authenticates in this browser session (the Session Manager)
login(u) ==
    /\ request = NoRequest
    /\ u # user
    /\ user' = u
    /\ UNCHANGED <<applications, id_tokens, OIDC_RP_INITIATED_LOGOUT_ALWAYS_PROMPT,
                   request, decision, response>>

\* the response is sent; the view keeps nothing between requests
finish ==
    /\ request # NoRequest
    /\ request' = NoRequest
    /\ decision' = NoDecision
    /\ response' = NoResponse
    /\ UNCHANGED <<user, applications, id_tokens, OIDC_RP_INITIATED_LOGOUT_ALWAYS_PROMPT>>

Get ==
    /\ \E h \in GetHints, c \in GetClientIds, u \in GetURIs, s \in GetStates :
           get(h, c, u, s)
    /\ UNCHANGED metadata_vars

FormValid ==
    /\ \E h \in FormHints, c \in FormClientIds, u \in FormURIs, s \in FormStates,
          allow \in BOOLEAN :
           form_valid(h, c, u, s, allow)
    /\ UNCHANGED metadata_vars

Login == (\E u \in Users : login(u)) /\ UNCHANGED metadata_vars

\* ------------------------------------------------------------- settings
\* oauth2_settings defaults: no issuer override, no RSA key, logout enabled
DefaultSettings ==
    [OIDC_ISS_ENDPOINT |-> EmptyStr, OIDC_USERINFO_ENDPOINT |-> EmptyStr,
     OIDC_RSA_PRIVATE_KEY |-> EmptyStr, OIDC_RSA_PRIVATE_KEYS_INACTIVE |-> <<>>,
     OIDC_RP_INITIATED_LOGOUT_ENABLED |-> TRUE, OIDC_JWKS_MAX_AGE_SECONDS |-> 3600]

NoDocument == [view |-> "none"]

\* ------------------------------------------------------------- stores
RegisteredURIs == {U_https, U_http, U_HTTP, U_query, U_noscheme, U_colon}

ApplicationsABC ==
    {[client_id |-> ABC, client_type |-> t, allowed_schemes |-> a,
      post_logout_redirect_uris |-> r] :
        t \in {"confidential", "public"},
        a \in {{S_https}, {S_http, S_https}, {S_http, S_https, S_app}},
        r \in {{}, RegisteredURIs}}

ApplicationPUB ==
    [client_id |-> PUB, client_type |-> "public", allowed_schemes |-> {S_http, S_https},
     post_logout_redirect_uris |-> {U_https}]

Init ==
    /\ user \in Users \cup {AnonymousUser}
    /\ \E abc \in ApplicationsABC :
           applications = (ABC :> abc) @@ (PUB :> ApplicationPUB)
    /\ \E c \in {ABC, PUB} :
           id_tokens = (T1 :> [user |-> 1, application |-> c, expired |-> FALSE])
                       @@ (T2 :> [user |-> 2, application |-> PUB, expired |-> FALSE])
                       @@ (TX :> [user |-> 1, application |-> ABC, expired |-> TRUE])
    /\ OIDC_RP_INITIATED_LOGOUT_ALWAYS_PROMPT \in BOOLEAN
    /\ request = NoRequest
    /\ decision = NoDecision
    /\ response = NoResponse
    /\ oauth2_settings = DefaultSettings
    /\ document = NoDocument
    /\ history = <<>>

Finish == finish /\ UNCHANGED metadata_vars

Next == Get \/ FormValid \/ Login \/ Finish

Spec == Init /\ [][Next]_vars

\* ------------------------------------------------------------- discovery and JWKS
MaxInactiveKeys == 2

\* PEM texts of RSA private keys
PEM1 == <<"k", "1">>
PEM2 == <<"k", "2">>

ISS_https == <<"h", "t", "t", "p", "s", ":", "/", "/", "i", "/", "o">>
ISS_http == <<"h", "t", "t", "p", ":", "/", "/", "i">>
USERINFO == <<"h", "t", "t", "p", "s", ":", "/", "/", "u", "/", "m", "e">>

\* the inbound request's own scheme and host, for build_absolute_uri
ORIGIN_https == <<"h", "t", "t", "p", "s", ":", "/", "/", "o", "p">>
ORIGIN_http == <<"h", "t", "t", "p", ":", "/", "/", "o", "p">>
Origins == {ORIGIN_https, ORIGIN_http}

\* reverse("oauth2_provider:<name>")
reverse(name) ==
    CASE name = "authorize" -> <<"/", "o", "/", "a">>
      [] name = "token" -> <<"/", "o", "/", "t">>
      [] name = "user-info" -> <<"/", "o", "/", "u">>
      [] name = "jwks-info" -> <<"/", "o", "/", "j">>
      [] name = "rp-initiated-logout" -> <<"/", "o", "/", "l">>

\* request.build_absolute_uri(location)
build_absolute_uri(origin, location) == origin \o location

\* oauth2_settings.oidc_issuer(request): the issuer derived from the request
oidc_issuer(origin) == build_absolute_uri(origin, <<"/", "o">>)

\* urlparse(url).netloc: what follows "//" after the scheme, up to the next "/"
urlparse_netloc(url) ==
    LET rest == urlparse_rest(url)
        after == IF Len(rest) >= 3 /\ rest[2] = "/" /\ rest[3] = "/"
                 THEN SubSeq(rest, 4, Len(rest))
                 ELSE EmptyStr
        slash == find(after, "/")
    IN IF slash = 0 THEN after ELSE SubSeq(after, 1, slash - 1)

\* Application.HS256_ALGORITHM, Application.RS256_ALGORITHM
HS256_ALGORITHM == "HS256"
RS256_ALGORITHM == "RS256"

\* validator.get_discovery_claims(request), scopes.get_available_scopes()
DiscoveryClaims == {"sub"}
AvailableScopes == <<"openid", "read">>

\* mutant: RS256 is appended after HS256
signing_algorithms_appended(settings) ==
    IF settings.OIDC_RSA_PRIVATE_KEY # EmptyStr
    THEN <<HS256_ALGORITHM, RS256_ALGORITHM>>
    ELSE <<HS256_ALGORITHM>>

signing_algorithms(settings) ==
    IF settings.OIDC_RSA_PRIVATE_KEY # EmptyStr
    THEN <<RS256_ALGORITHM, HS256_ALGORITHM>>
    ELSE <<HS256_ALGORITHM>>

\* the endpoint of a view: under the issuer override's scheme and host when one is
\* set, else resolved against the inbound request
endpoint(settings, origin, name) ==
    IF settings.OIDC_ISS_ENDPOINT = EmptyStr
    THEN build_absolute_uri(origin, reverse(name))
    ELSE urlparse_scheme(settings.OIDC_ISS_ENDPOINT) \o <<":", "/", "/">>
           \o urlparse_netloc(settings.OIDC_ISS_ENDPOINT) \o reverse(name)

\* ConnectDiscoveryInfoView.get: the JSON data and the CORS header
ConnectDiscoveryInfoView_get(settings, origin) ==
    LET data ==
            [issuer |-> IF settings.OIDC_ISS_ENDPOINT = EmptyStr
                        THEN oidc_issuer(origin)
                        ELSE settings.OIDC_ISS_ENDPOINT,
             authorization_endpoint |-> endpoint(settings, origin, "authorize"),
             token_endpoint |-> endpoint(settings, origin, "token"),
             userinfo_endpoint |-> IF settings.OIDC_USERINFO_ENDPOINT # EmptyStr
                                   THEN settings.OIDC_USERINFO_ENDPOINT
                                   ELSE endpoint(settings, origin, "user-info"),
             jwks_uri |-> endpoint(settings, origin, "jwks-info"),
             scopes_supported |-> AvailableScopes,
             id_token_signing_alg_values_supported |-> signing_algorithms(settings),
             claims_supported |-> DiscoveryClaims]
    IN [view |-> "discovery",
        data |-> IF settings.OIDC_RP_INITIATED_LOGOUT_ENABLED
                 THEN data @@ [end_session_endpoint |->
                                   endpoint(settings, origin, "rp-initiated-logout")]
                 ELSE data,
        headers |-> [Access_Control_Allow_Origin |-> "*"]]

\* jwk.JWK.from_pem(pem).thumbprint(): a digest of the key material
thumbprint(pem) == <<"#">> \o pem

\* json.loads(key.export_public()): the public part of the key
export_public(pem) == <<"p", "u", "b", ":">> \o pem

\* the dict appended to keys for one pem
jwk_entry(pem) ==
    [alg |-> "RS256", use |-> "sig", kid |-> thumbprint(pem), key |-> export_public(pem)]

\* JwksInfoView.get: the key list and the headers
JwksInfoView_get(settings) ==
    LET pems == <<settings.OIDC_RSA_PRIVATE_KEY>> \o settings.OIDC_RSA_PRIVATE_KEYS_INACTIVE
    IN [view |-> "jwks",
        data |-> [keys |-> IF settings.OIDC_RSA_PRIVATE_KEY # EmptyStr
                           THEN [i \in 1..Len(pems) |-> jwk_entry(pems[i])]
                           ELSE <<>>],
        headers |-> [Access_Control_Allow_Origin |-> "*",
                     max_age |-> settings.OIDC_JWKS_MAX_AGE_SECONDS,
                     stale_while_revalidate |-> settings.OIDC_JWKS_MAX_AGE_SECONDS,
                     stale_if_error |-> settings.OIDC_JWKS_MAX_AGE_SECONDS]]

discovery_get(origin) ==
    /\ document = NoDocument
    /\ document' = ConnectDiscoveryInfoView_get(oauth2_settings, origin)
    /\ UNCHANGED <<user, applications, id_tokens, OIDC_RP_INITIATED_LOGOUT_ALWAYS_PROMPT,
                   request, decision, response, oauth2_settings, history>>

jwks_get ==
    /\ document = NoDocument
    /\ document' = JwksInfoView_get(oauth2_settings)
    /\ UNCHANGED <<user, applications, id_tokens, OIDC_RP_INITIATED_LOGOUT_ALWAYS_PROMPT,
                   request, decision, response, oauth2_settings, history>>

\* the document is sent; the views keep nothing
document_sent ==
    /\ document # NoDocument
    /\ document' = NoDocument
    /\ UNCHANGED <<user, applications, id_tokens, OIDC_RP_INITIATED_LOGOUT_ALWAYS_PROMPT,
                   request, decision, response, oauth2_settings, history>>

Pems == {PEM1, PEM2}

\* the sequences over Pems of length at most n
RECURSIVE PemLists(_)
PemLists(n) ==
    IF n = 0 THEN {<<>>}
    ELSE PemLists(n - 1)
           \cup {Append(l, k) : l \in {m \in PemLists(n - 1) : Len(m) = n - 1}, k \in Pems}

SettingsChoices ==
    [OIDC_ISS_ENDPOINT : {EmptyStr, ISS_https, ISS_http},
     OIDC_USERINFO_ENDPOINT : {EmptyStr, USERINFO},
     OIDC_RSA_PRIVATE_KEY : {EmptyStr} \cup Pems,
     OIDC_RSA_PRIVATE_KEYS_INACTIVE : PemLists(MaxInactiveKeys),
     OIDC_RP_INITIATED_LOGOUT_ENABLED : BOOLEAN,
     OIDC_JWKS_MAX_AGE_SECONDS : {3600}]

InitMetadata ==
    /\ user = AnonymousUser
    /\ applications = (ABC :> CHOOSE a \in ApplicationsABC : TRUE) @@ (PUB :> ApplicationPUB)
    /\ id_tokens = (T1 :> [user |-> 1, application |-> ABC, expired |-> FALSE])
    /\ OIDC_RP_INITIATED_LOGOUT_ALWAYS_PROMPT = FALSE
    /\ request = NoRequest
    /\ decision = NoDecision
    /\ response = NoResponse
    /\ oauth2_settings \in SettingsChoices
    /\ document = NoDocument
    /\ history = <<>>

DiscoveryGet == \E origin \in Origins : discovery_get(origin)

JwksGet == jwks_get

DocumentSent == document_sent

NextMetadata == DiscoveryGet \/ JwksGet \/ DocumentSent

SpecMetadata == InitMetadata /\ [][NextMetadata]_vars

\* ------------------------------------------------------------- the validator called directly
MaxCalls == 2

\* what a call of the validator can read or write besides its arguments
Stores == <<user, applications, id_tokens, OIDC_RP_INITIATED_LOGOUT_ALWAYS_PROMPT>>

\* mutant: a validated hint is consumed (one-time use)
validator_call_consumes_hint(id_token_hint, client_id, post_logout_redirect_uri) ==
    LET d == validate_logout_request(user, id_token_hint, client_id,
                                     post_logout_redirect_uri)
    IN /\ Len(history) < MaxCalls
       /\ history # <<>> =>
              history[1].args = <<id_token_hint, client_id, post_logout_redirect_uri>>
       /\ decision' = d
       /\ id_tokens' = IF Truthy(id_token_hint) /\ id_token_hint[1] \in DOMAIN id_tokens
                       THEN [id_tokens EXCEPT ![id_token_hint[1]].expired = TRUE]
                       ELSE id_tokens
       /\ UNCHANGED <<user, applications, OIDC_RP_INITIATED_LOGOUT_ALWAYS_PROMPT>>
       /\ history' = Append(history,
                            [args |-> <<id_token_hint, client_id, post_logout_redirect_uri>>,
                             before |-> Stores, after |-> Stores', outcome |-> d])
       /\ UNCHANGED <<request, response, oauth2_settings, document>>

\* validate_logout_request(request, id_token_hint, client_id, post_logout_redirect_uri)
\* called on its own; a second call repeats the arguments of the first
validator_call(id_token_hint, client_id, post_logout_redirect_uri) ==
    LET d == validate_logout_request(user, id_token_hint, client_id,
                                     post_logout_redirect_uri)
    IN /\ Len(history) < MaxCalls
       /\ history # <<>> =>
              history[1].args = <<id_token_hint, client_id, post_logout_redirect_uri>>
       /\ decision' = d
       /\ UNCHANGED <<user, applications, id_tokens, OIDC_RP_INITIATED_LOGOUT_ALWAYS_PROMPT>>
       /\ history' = Append(history,
                            [args |-> <<id_token_hint, client_id, post_logout_redirect_uri>>,
                             before |-> Stores, after |-> Stores', outcome |-> d])
       /\ UNCHANGED <<request, response, oauth2_settings, document>>

\* the caller drops the outcomes
validator_done ==
    /\ history # <<>>
    /\ history' = <<>>
    /\ decision' = NoDecision
    /\ UNCHANGED <<user, applications, id_tokens, OIDC_RP_INITIATED_LOGOUT_ALWAYS_PROMPT,
                   request, response, oauth2_settings, document>>

ValidatorCall ==
    \E h \in GetHints, c \in GetClientIds, u \in GetURIs : validator_call(h, c, u)

ValidatorDone == validator_done

NextValidator == ValidatorCall \/ ValidatorDone

SpecValidator == Init /\ [][NextValidator]_vars

\* ------------------------------------------------------------- the confirmation round trip
\* the user answers the rendered prompt: the browser posts the form's fields as they
\* were pre-filled together with the answer, and form_valid handles the cleaned data
submit_confirmation(allow) ==
    LET form == response.form[1]
        cleaned_data == [id_token_hint |-> clean(form.id_token_hint),
                         client_id |-> clean(form.client_id),
                         post_logout_redirect_uri |-> clean(form.post_logout_redirect_uri),
                         state |-> clean(form.state),
                         allow |-> allow]
        d == validate_logout_request(user, cleaned_data.id_token_hint,
                                     cleaned_data.client_id,
                                     cleaned_data.post_logout_redirect_uri)
        out == form_valid_outcome(user, d, cleaned_data)
    IN /\ request.method = "GET"
       /\ response.kind = "prompt"
       /\ history' = <<[request |-> request, decision |-> decision]>>
       /\ request' = [method |-> "POST", user |-> user,
                      id_token_hint |-> cleaned_data.id_token_hint,
                      client_id |-> cleaned_data.client_id,
                      post_logout_redirect_uri |-> cleaned_data.post_logout_redirect_uri,
                      state |-> cleaned_data.state, allow |-> allow]
       /\ decision' = d
       /\ response' = out.response
       /\ user' = out.user
       /\ UNCHANGED <<applications, id_tokens, OIDC_RP_INITIATED_LOGOUT_ALWAYS_PROMPT,
                      oauth2_settings, document>>

\* the response is sent and the browser leaves the exchange
round_trip_finish ==
    /\ finish
    /\ history' = <<>>
    /\ UNCHANGED <<oauth2_settings, document>>

SubmitConfirmation == \E allow \in BOOLEAN : submit_confirmation(allow)

RoundTripFinish == round_trip_finish

NextRoundTrip == Get \/ SubmitConfirmation \/ RoundTripFinish

SpecRoundTrip == Init /\ [][NextRoundTrip]_vars

\* ------------------------------------------------------------- vocabulary of the claims
Handled == request # NoRequest

\* the token an id_token_hint validates to, None when none was supplied or it fails
ValidatedToken(id_token_hint) ==
    IF Truthy(id_token_hint) THEN load_id_token(id_token_hint[1]) ELSE None

\* a hint was supplied and did not validate
HintFails(id_token_hint) ==
    Truthy(id_token_hint) /\ ValidatedToken(id_token_hint) = None

\* the token validates and was issued to another client than client_id
TokenOfOtherClient(id_token_hint, client_id) ==
    /\ Truthy(id_token_hint)
    /\ Truthy(client_id)
    /\ ValidatedToken(id_token_hint) # None
    /\ ValidatedToken(id_token_hint)[1].application # client_id[1]

\* the token validates and its subject is the user u
TokenProves(id_token_hint, u) ==
    /\ ValidatedToken(id_token_hint) # None
    /\ ValidatedToken(id_token_hint)[1].user = u

\* the session was ended while the request was handled
SessionEnded == response.kind = "redirect" \/ user # request.user

IsError(kind) == response.kind = "error" /\ response.error = kind

\* C1: an initial request (get) ends the session without a confirmation step only
\* if an id_token_hint was supplied, validated, names the authenticated user as its
\* subject, and the always-prompt policy is off; otherwise the session is intact.
C1_SilentLogoutNeedsTokenProof ==
    (request.method = "GET" /\ SessionEnded) =>
        /\ Truthy(request.id_token_hint)
        /\ TokenProves(request.id_token_hint, request.user)
        /\ ~OIDC_RP_INITIATED_LOGOUT_ALWAYS_PROMPT

C1_Witness ==
    /\ request.method = "GET"
    /\ request.user \in Users
    /\ user = AnonymousUser
    /\ response.kind = "redirect"
    /\ TokenProves(request.id_token_hint, request.user)

\* C2: when a request through get or form_valid ends in one of the five errors, the
\* session is the same as before; the session is ended only by do_logout, after the
\* validator has succeeded.
C2_NoSessionEndedOnFailure ==
    Handled =>
        /\ (response.kind = "error" =>
                response.error \in OIDCErrors /\ user = request.user)
        /\ (~decision.ok => user = request.user)
        /\ (user # request.user =>
                decision.ok /\ response.kind = "redirect" /\ user = AnonymousUser)

C2_Witness ==
    /\ request.method = "POST"
    /\ request.user \in Users
    /\ user = request.user
    /\ IsError("LogoutDenied")

\* C3: a confirmation submission (form_valid) whose fields pass the validator is
\* terminated exactly when mustPrompt is false or allow is true, and is LogoutDenied
\* otherwise; one whose fields fail the validator yields the validator's error
\* whatever allow is.
C3_ConfirmationSubmissionRule ==
    request.method = "POST" =>
        IF decision.ok
        THEN IF ~decision.prompt_logout \/ request.allow
             THEN response.kind = "redirect" /\ user = AnonymousUser
             ELSE IsError("LogoutDenied") /\ user = request.user
        ELSE /\ response.kind \in {"error", "fault"}
             /\ response.error = decision.error
             /\ response.kind = "error" <=> decision.error \in OIDCErrors

C3_Witness ==
    /\ request.method = "POST"
    /\ decision.ok
    /\ decision.prompt_logout
    /\ request.allow
    /\ request.user \in Users
    /\ response.kind = "redirect"
    /\ user = AnonymousUser

\* C4 as stated: every confirmation submission with allow=false whose fields pass
\* validation results in LogoutDenied and leaves the session untouched.
C4_Original ==
    (request.method = "POST" /\ ~request.allow /\ decision.ok) =>
        IsError("LogoutDenied") /\ user = request.user

\* C4 amended: a confirmation submission with allow=false whose fields pass
\* validation results in LogoutDenied with the session untouched when the decision's
\* mustPrompt is true, and is terminated (session ended, redirect) when it is false.
C4_DecliningKeepsSessionWhenPrompted ==
    (request.method = "POST" /\ ~request.allow /\ decision.ok) =>
        IF decision.prompt_logout
        THEN IsError("LogoutDenied") /\ user = request.user
        ELSE response.kind = "redirect" /\ user = AnonymousUser

C4_Witness ==
    /\ request.method = "POST"
    /\ ~request.allow
    /\ decision.ok
    /\ decision.prompt_logout
    /\ Truthy(request.id_token_hint)
    /\ Truthy(request.post_logout_redirect_uri)
    /\ request.user \in Users
    /\ IsError("LogoutDenied")
    /\ user = request.user

\* the client the validator resolves for the request, None when it resolves none
\* (an earlier step failed, the client_id is not registered, or nothing names one)
ResolvedClient ==
    IF HintFails(request.id_token_hint)
           \/ TokenOfOtherClient(request.id_token_hint, request.client_id)
    THEN None
    ELSE IF Truthy(request.client_id)
         THEN IF request.client_id[1] \in DOMAIN applications
              THEN Some(applications[request.client_id[1]])
              ELSE None
         ELSE IF ValidatedToken(request.id_token_hint) # None
              THEN Some(applications[ValidatedToken(request.id_token_hint)[1].application])
              ELSE None

\* uri passes every check of the redirect target against the client
SafeRedirectTarget(uri, client) ==
    /\ urlparse_scheme(uri) # EmptyStr
    /\ urlparse_scheme(uri) \in client.allowed_schemes
    /\ (urlparse_scheme(uri) = S_http => client.client_type = "confidential")
    /\ uri \in client.post_logout_redirect_uris

\* C5: every redirect issued by the termination step targets the application's own
\* root or the request's post_logout_redirect_uri (with the state appended when one
\* is given), and that uri has a scheme, the scheme is in the resolved client's
\* allowed schemes, is not http unless the client is confidential, and the uri is
\* registered for that client, whatever fields the request carried.
C5_RedirectTargetSafety ==
    (Handled /\ response.kind = "redirect") =>
        \/ response.location = ROOT /\ ~Truthy(request.post_logout_redirect_uri)
        \/ /\ Truthy(request.post_logout_redirect_uri)
           /\ ResolvedClient # None
           /\ SafeRedirectTarget(request.post_logout_redirect_uri[1], ResolvedClient[1])
           /\ response.location =
                 IF Truthy(request.state)
                 THEN add_params_to_uri(request.post_logout_redirect_uri[1],
                                        request.state[1])
                 ELSE request.post_logout_redirect_uri[1]

C5_Witness ==
    /\ request.method = "POST"
    /\ response.kind = "redirect"
    /\ response.location # ROOT
    /\ Truthy(request.post_logout_redirect_uri)
    /\ urlparse_scheme(request.post_logout_redirect_uri[1]) = S_http

\* C6: a validator call with a client_id and an id_token_hint validating to a token
\* issued to another client raises ClientIdMissmatch, whoever the user is, whether
\* or not client_id is registered, and whatever the post_logout_redirect_uri is.
C6_ClientTokenBinding ==
    (Handled /\ TokenOfOtherClient(request.id_token_hint, request.client_id)) =>
        ~decision.ok /\ decision.error = "ClientIdMissmatch"

C6_Witness ==
    /\ Handled
    /\ TokenOfOtherClient(request.id_token_hint, request.client_id)
    /\ request.client_id[1] \notin DOMAIN applications
    /\ Truthy(request.post_logout_redirect_uri)
    /\ decision.error = "ClientIdMissmatch"

\* C7 as stated: a validator call with a post_logout_redirect_uri, no id_token_hint,
\* and no client_id or a client_id the client store does not find, raises
\* InvalidOIDCClientError.
C7_RedirectWithoutClient ==
    (/\ Handled
     /\ Truthy(request.post_logout_redirect_uri)
     /\ ~Truthy(request.id_token_hint)
     /\ (~Truthy(request.client_id) \/ request.client_id[1] \notin DOMAIN applications))
        => ~decision.ok /\ decision.error = "InvalidOIDCClientError"

\* C8: a validator call whose post_logout_redirect_uri has scheme http and whose
\* resolved client is not confidential raises InvalidOIDCRedirectURIError, even if
\* the uri is registered for the client and http is among its allowed schemes.
C8_NoPlaintextRedirectForPublicClients ==
    (/\ Handled
     /\ Truthy(request.post_logout_redirect_uri)
     /\ urlparse_scheme(request.post_logout_redirect_uri[1]) = S_http
     /\ ResolvedClient # None
     /\ ResolvedClient[1].client_type # "confidential")
        => ~decision.ok /\ decision.error = "InvalidOIDCRedirectURIError"

C8_Witness ==
    /\ Handled
    /\ Truthy(request.post_logout_redirect_uri)
    /\ urlparse_scheme(request.post_logout_redirect_uri[1]) = S_http
    /\ ResolvedClient # None
    /\ ResolvedClient[1].client_type = "public"
    /\ S_http \in ResolvedClient[1].allowed_schemes
    /\ request.post_logout_redirect_uri[1] \in ResolvedClient[1].post_logout_redirect_uris
    /\ decision.error = "InvalidOIDCRedirectURIError"

\* C9: a validator call with no id_token_hint and no client_id never returns a
\* decision with mustPrompt false; with no post_logout_redirect_uri either it
\* returns mustPrompt true, no client and no redirect uri, whatever the policy is.
C9_NoProofMeansConfirm ==
    (Handled /\ ~Truthy(request.id_token_hint) /\ ~Truthy(request.client_id)) =>
        /\ decision.ok => decision.prompt_logout
        /\ ~Truthy(request.post_logout_redirect_uri) =>
              /\ decision.ok
              /\ decision.prompt_logout
              /\ decision.application = None
              /\ ~Truthy(decision.post_logout_redirect_uri)

C9_Witness ==
    /\ Handled
    /\ request.id_token_hint = None
    /\ request.client_id = None
    /\ request.post_logout_redirect_uri = None
    /\ ~OIDC_RP_INITIATED_LOGOUT_ALWAYS_PROMPT
    /\ decision.ok
    /\ decision.prompt_logout

\* C10: when the validator succeeds with an id_token_hint validating to an unexpired
\* token whose subject is the current user, mustPrompt equals the always-prompt
\* policy.
C10_TokenProofRelaxesPrompt ==
    (Handled /\ decision.ok /\ TokenProves(request.id_token_hint, request.user)) =>
        decision.prompt_logout = OIDC_RP_INITIATED_LOGOUT_ALWAYS_PROMPT

C10_Witness ==
    /\ Handled
    /\ decision.ok
    /\ TokenProves(request.id_token_hint, request.user)
    /\ OIDC_RP_INITIATED_LOGOUT_ALWAYS_PROMPT
    /\ decision.prompt_logout
    /\ response.kind = "prompt"

\* C11: a decision returned by the validator has a non-empty redirect uri only if it
\* has a resolved client, and do_logout is never entered with a redirect uri and no
\* client (which would fail on application.get_allowed_schemes()).
C11_RedirectURINeedsClient ==
    Handled =>
        /\ (decision.ok /\ Truthy(decision.post_logout_redirect_uri)) =>
               decision.application # None
        /\ ~(response.kind = "fault" /\ response.error = "AttributeError")

C11_Witness ==
    /\ Handled
    /\ decision.ok
    /\ Truthy(decision.post_logout_redirect_uri)
    /\ decision.application # None
    /\ ~Truthy(request.client_id)
    /\ response.kind = "redirect"

\* C12: an initial request (get) on which the validator succeeds is terminated when
\* mustPrompt is false, and otherwise answered with the confirmation form, the
\* session not ended and the form carrying the request's id_token_hint, client_id,
\* post_logout_redirect_uri and state.
C12_InitialRequestRule ==
    (request.method = "GET" /\ decision.ok) =>
        IF ~decision.prompt_logout
        THEN response.kind = "redirect" /\ user = AnonymousUser
        ELSE /\ response.kind = "prompt"
             /\ user = request.user
             /\ response.form # None
             /\ response.form[1].id_token_hint = request.id_token_hint
             /\ response.form[1].client_id = request.client_id
             /\ response.form[1].post_logout_redirect_uri = request.post_logout_redirect_uri
             /\ response.form[1].state = request.state
             /\ response.form[1].logout_hint = None
             /\ response.form[1].ui_locales = None
             /\ response.application = decision.application

C12_Witness ==
    /\ request.method = "GET"
    /\ decision.ok
    /\ decision.prompt_logout
    /\ request.user \in Users
    /\ Truthy(request.id_token_hint)
    /\ Truthy(request.client_id)
    /\ Truthy(request.post_logout_redirect_uri)
    /\ Truthy(request.state)
    /\ response.kind = "prompt"

\* uri with state appended as a query parameter: after "?" when uri has no query,
\* after "&" when it has one, the value form-encoded; the scheme is a URI's
\* case-insensitive part and comes out lower-cased.
WithStateParameter(uri, state) ==
    LET colon == find(uri, ":")
        has_query == \E i \in 1..Len(uri) : uri[i] = "?"
    IN lower(SubSeq(uri, 1, colon - 1)) \o SubSeq(uri, colon, Len(uri))
         \o (IF has_query THEN <<"&">> ELSE <<"?">>)
         \o <<"s", "t", "a", "t", "e", "=">>
         \o [i \in 1..Len(state) |-> IF state[i] = " " THEN "+" ELSE state[i]]

\* C13: whenever a request is terminated, the redirect goes to the validated
\* post_logout_redirect_uri with the state appended as a query parameter when both
\* are present, to the bare uri when only it is, and to the application's root when
\* no redirect uri was resolved (a state is then not carried).
C13_FinalRedirect ==
    (Handled /\ response.kind = "redirect") =>
        response.location =
            IF Truthy(decision.post_logout_redirect_uri)
            THEN IF Truthy(request.state)
                 THEN WithStateParameter(decision.post_logout_redirect_uri[1],
                                         request.state[1])
                 ELSE decision.post_logout_redirect_uri[1]
            ELSE ROOT

C13_Witness ==
    /\ Handled
    /\ response.kind = "redirect"
    /\ decision.post_logout_redirect_uri = Some(U_query)
    /\ request.state = Some(XYZ)
    /\ response.location # U_query

\* C14 as stated: every request through either entry point ends in a redirect, a
\* rendered confirmation prompt or an error payload carrying one of the five error
\* kinds; no failure escapes as an unhandled fault.
C14_EveryFailureIsAnErrorResponse ==
    Handled =>
        /\ response.kind \in {"redirect", "prompt", "error"}
        /\ response.kind = "error" => response.error \in OIDCErrors

\* do_logout is entered for the request: the validator succeeded and get found
\* mustPrompt false, or form_valid found mustPrompt false or allow true
TerminationEntered ==
    /\ Handled
    /\ decision.ok
    /\ \/ ~decision.prompt_logout
       \/ request.method = "POST" /\ request.allow

\* C16: when do_logout is entered for a session that an earlier do_logout has
\* already ended (request.user is AnonymousUser), it does not raise, the session
\* stays ended and a redirect is still produced.
C16_TerminationIsRepeatable ==
    (TerminationEntered /\ request.user = AnonymousUser) =>
        response.kind = "redirect" /\ user = AnonymousUser

C16_Witness ==
    /\ TerminationEntered
    /\ request.user = AnonymousUser
    /\ Truthy(request.post_logout_redirect_uri)
    /\ response.kind = "redirect"
    /\ user = AnonymousUser

NoParameters ==
    /\ ~Truthy(request.id_token_hint)
    /\ ~Truthy(request.client_id)
    /\ ~Truthy(request.post_logout_redirect_uri)
    /\ ~Truthy(request.state)

\* C17 as stated: an initial request with none of id_token_hint, client_id,
\* post_logout_redirect_uri and state is valid and is redirected to the default
\* location without a confirmation step.
C17_Original ==
    (request.method = "GET" /\ NoParameters) =>
        decision.ok /\ response.kind = "redirect" /\ response.location = ROOT

\* C17 amended: an initial request with none of the four parameters is valid and is
\* answered with the confirmation prompt, the session intact; the confirmation
\* submission of those empty fields with allow=true is redirected to the default
\* location, and with allow=false is denied.
C17_EmptyRequestPrompts ==
    NoParameters =>
        /\ request.method = "GET" =>
              /\ decision.ok
              /\ decision.prompt_logout
              /\ response.kind = "prompt"
              /\ response.application = None
              /\ user = request.user
        /\ request.method = "POST" =>
              IF request.allow
              THEN response.kind = "redirect" /\ response.location = ROOT
              ELSE IsError("LogoutDenied") /\ user = request.user

C17_Witness ==
    /\ request.method = "GET"
    /\ request.id_token_hint = None
    /\ request.client_id = None
    /\ request.post_logout_redirect_uri = None
    /\ request.state = None
    /\ request.user \in Users
    /\ ~OIDC_RP_INITIATED_LOGOUT_ALWAYS_PROMPT
    /\ response.kind = "prompt"
    /\ user = request.user

RsaConfigured == oauth2_settings.OIDC_RSA_PRIVATE_KEY # EmptyStr

\* C18: the discovery document's id_token_signing_alg_values_supported is
\* [RS256, HS256] when an RSA signing key is configured and [HS256] when none is,
\* whatever the issuer override and the other settings; end_session_endpoint is a
\* key of the document exactly when RP-Initiated Logout is enabled.
C18_DiscoverySigningAlgorithms ==
    document.view = "discovery" =>
        /\ document.data.id_token_signing_alg_values_supported =
              IF RsaConfigured THEN <<"RS256", "HS256">> ELSE <<"HS256">>
        /\ "end_session_endpoint" \in DOMAIN document.data
              <=> oauth2_settings.OIDC_RP_INITIATED_LOGOUT_ENABLED

C18_Witness ==
    /\ document.view = "discovery"
    /\ RsaConfigured
    /\ oauth2_settings.OIDC_ISS_ENDPOINT # EmptyStr
    /\ ~oauth2_settings.OIDC_RP_INITIATED_LOGOUT_ENABLED
    /\ document.data.id_token_signing_alg_values_supported = <<"RS256", "HS256">>
    /\ "end_session_endpoint" \notin DOMAIN document.data

\* the configured RSA signing keys: the current one, if any, then the inactive ones
ConfiguredKeys ==
    (IF RsaConfigured THEN <<oauth2_settings.OIDC_RSA_PRIVATE_KEY>> ELSE <<>>)
        \o oauth2_settings.OIDC_RSA_PRIVATE_KEYS_INACTIVE

\* C19 as stated: the published key list has one entry for each configured RSA
\* signing key, the current key first and then the inactive keys in their
\* configured order, each with alg RS256, use sig and a key ID that depends on the
\* key material alone; it is empty if no RSA key is configured.
C19_JwksKeyList ==
    document.view = "jwks" =>
        /\ Len(document.data.keys) = Len(ConfiguredKeys)
        /\ \A i \in 1..Len(document.data.keys) :
              /\ document.data.keys[i].alg = "RS256"
              /\ document.data.keys[i].use = "sig"
              /\ document.data.keys[i].key = export_public(ConfiguredKeys[i])
        /\ \A i, j \in 1..Len(document.data.keys) :
              ConfiguredKeys[i] = ConfiguredKeys[j] =>
                  document.data.keys[i].kid = document.data.keys[j].kid

InitialExchange == history[1]

Confirmed == history # <<>> /\ request.method = "POST" /\ request.allow

\* C20: if an initial request ends in the confirmation prompt, submitting the form
\* with exactly the fields it was pre-filled with and allow=true, the user, the
\* stores and the policy unchanged in between, is terminated: the session is ended
\* and the redirect goes to the target the initial request's decision resolved, its
\* validated redirect uri with its state or the application's root.
C20_ConfirmationRoundTrip ==
    Confirmed =>
        /\ response.kind = "redirect"
        /\ user = AnonymousUser
        /\ response.location =
              IF Truthy(InitialExchange.decision.post_logout_redirect_uri)
              THEN IF Truthy(InitialExchange.request.state)
                   THEN WithStateParameter(
                            InitialExchange.decision.post_logout_redirect_uri[1],
                            InitialExchange.request.state[1])
                   ELSE InitialExchange.decision.post_logout_redirect_uri[1]
              ELSE ROOT

C20_Witness ==
    /\ Confirmed
    /\ InitialExchange.request.user # AnonymousUser
    /\ InitialExchange.request.id_token_hint = None
    /\ InitialExchange.decision.post_logout_redirect_uri = Some(U_https)
    /\ InitialExchange.request.state = Some(XYZ)
    /\ response.kind = "redirect"
    /\ user = AnonymousUser

====
